---------------------------- MODULE Spec2Model ----------------------------
(***************************************************************************)
(* A model of SlackReader (llama_index/readers/slack/base.py): the         *)
(* constructor's time-window computation, load_data, the channel resolver, *)
(* and the two paginated fetch loops _read_channel and _read_message with  *)
(* their handling of SlackApiError.  The Slack Web API is the environment: *)
(* it answers every request with a page, a rate-limit signal or another    *)
(* error.                                                                  *)
(***************************************************************************)
EXTENDS Integers, Sequences, FiniteSets, TLC

VARIABLES
    args,    \* the constructor call: its arguments, the clock, api_test's answer
    self,    \* the instance's fields earliest/latest_date_timestamp
    pc,      \* where the program is
    load,    \* load_data's frame
    chan,    \* _read_channel's frame
    thr,     \* _read_message's frame
    env,     \* the Slack API's side: outages, signals sent, pending exception
    log      \* what the resolver or the current _read_channel call has sent,
             \* slept and returned

vars == <<args, self, pc, load, chan, thr, env, log>>

----------------------------------------------------------------------------
(* Bounds of the model.                                                    *)

\* rate-limit signals the API sends during one _read_channel call
MaxRateLimits == 1
\* one-off (non-persistent) errors the API sends during one _read_channel call
MaxErrors == 1
\* entries the observation log keeps; later ones are dropped
MaxEvents == 18

----------------------------------------------------------------------------
(* Python values.                                                          *)

\* None, where a number is expected (Optional[float], Optional[datetime])
None == -1

\* Python truthiness of an optional number: None and 0 are falsy
Truthy(x) == x # None /\ x # 0

\* x or y
PyOr(x, y) == IF Truthy(x) THEN x ELSE y

\* datetime.timestamp(): a datetime is counted in minutes, a timestamp in seconds
Timestamp(d) == d * 60

\* str(x) of a number
Str(x) == ToString(x)

\* int(s) of the retry-after header
PyInt(s) == CASE s = "1" -> 1 [] s = "3" -> 3 [] OTHER -> 0

RECURSIVE Join(_)
\* "\n\n".join(texts)
Join(texts) ==
    IF texts = <<>> THEN ""
    ELSE IF Len(texts) = 1 THEN texts[1]
    ELSE texts[1] \o "\n\n" \o Join(Tail(texts))

\* seq[::-1]
Reversed(seq) == [i \in 1..Len(seq) |-> seq[Len(seq) + 1 - i]]

\* set(seq)
PySet(seq) == {seq[i] : i \in 1..Len(seq)}

\* list(s) of a set: the iteration order of a set of strings is not fixed
ListsOfSet(s) ==
    {q \in [1..Cardinality(s) -> s] : \A i, j \in 1..Cardinality(s) : i # j => q[i] # q[j]}

----------------------------------------------------------------------------
(* The Slack workspace the API serves.                                     *)

\* conversations.list: the channels, each with an id and a name (its characters)
Channels ==
    << [id |-> "A", name |-> <<"a", "b">>],
       [id |-> "B", name |-> <<"b", "(">>] >>

ChannelIdSet == {Channels[i].id : i \in 1..Len(Channels)}

\* conversations.history of a channel: its pages, each the ts of its messages
HistoryPages(channel) ==
    IF channel = "A" THEN << <<"m1", "m2">>, <<"m3">> >>
    ELSE << <<"n1">> >>

\* conversations.replies of a message: its pages, each the texts of its replies,
\* the root's own text first; m3's replies all lie outside the window
ReplyPages(ts) ==
    CASE ts = "m1" -> << <<"M1">> >>
      [] ts = "m2" -> << <<"M2", "R2">> >>
      [] ts = "m3" -> << <<>> >>
      [] OTHER     -> << <<"N1">>, <<"R1", "S1">> >>

\* cursor=None
NoCursor == [kind |-> "none", channel |-> "-", ts |-> "-", page |-> 0]

\* the opaque next_cursor of a response: names the resource and its next page
CursorOf(kind, channel, ts, page) ==
    [kind |-> kind, channel |-> channel, ts |-> ts, page |-> page]

\* the page a request asks for
PageOf(cursor) == IF cursor = NoCursor THEN 1 ELSE cursor.page

\* result of conversations_history(channel=, cursor=, ...)
HistoryResponse(channel, cursor) ==
    LET pages == HistoryPages(channel)
        p == PageOf(cursor)
    IN  [messages |-> pages[p],
         has_more |-> p < Len(pages),
         next_cursor |-> IF p < Len(pages) THEN CursorOf("history", channel, "-", p + 1)
                         ELSE NoCursor]

\* result of conversations_replies(channel=, ts=, cursor=, ...)
RepliesResponse(channel, ts, cursor) ==
    LET pages == ReplyPages(ts)
        p == PageOf(cursor)
    IN  [messages |-> pages[p],
         has_more |-> p < Len(pages),
         next_cursor |-> IF p < Len(pages) THEN CursorOf("replies", channel, ts, p + 1)
                         ELSE NoCursor]

\* the retry-after headers a rate-limit signal may carry
RetryAfterHeaders == {"1", "3"}

----------------------------------------------------------------------------
(* Regular expressions, over the characters a b . * ( ^                    *)

\* re.compile(pattern) raises re.error: an unbalanced parenthesis, or a "*"
\* with nothing to repeat (first, after "^", after "(" or after another "*")
CompileFails(pattern) ==
    \E i \in 1..Len(pattern) :
        \/ pattern[i] = "("
        \/ /\ pattern[i] = "*"
           /\ (i = 1 \/ pattern[i - 1] \in {"^", "*", "("})

\* one character against one atom: "." is any character
AtomMatches(atom, c) == atom = "." \/ atom = c

RECURSIVE MatchFrom(_, _, _, _)
\* whether pattern[i..] matches a prefix of name[j..]
MatchFrom(pattern, i, name, j) ==
    IF i > Len(pattern) THEN TRUE
    ELSE IF pattern[i] = "^" THEN j = 1 /\ MatchFrom(pattern, i + 1, name, j)
    ELSE IF i < Len(pattern) /\ pattern[i + 1] = "*"
    THEN \E n \in 0..(Len(name) + 1 - j) :
            /\ \A m \in 0..(n - 1) : AtomMatches(pattern[i], name[j + m])
            /\ MatchFrom(pattern, i + 2, name, j + n)
    ELSE /\ j <= Len(name)
         /\ AtomMatches(pattern[i], name[j])
         /\ MatchFrom(pattern, i + 1, name, j + 1)

\* re.match(pattern, name) is not None: the pattern matches at the start of name
ReMatch(pattern, name) == MatchFrom(pattern, 1, name, 1)

----------------------------------------------------------------------------
(* The channel resolver.                                                   *)

\* _is_regex
IsRegex(pattern) == ~CompileFails(pattern)

RECURSIVE Concat(_)
\* the concatenation of a sequence of sequences
Concat(seqs) == IF seqs = <<>> THEN <<>> ELSE seqs[1] \o Concat(Tail(seqs))

\* a filter that compares every pattern, compiling or not, with the names
FilterChannelsAllExact(channels, patterns) ==
    LET regex_patterns == SelectSeq(patterns, LAMBDA p : IsRegex(p))
        filtered_channels == SelectSeq(channels, LAMBDA c : c.name \in PySet(patterns))
        Matches(c) == SelectSeq(regex_patterns, LAMBDA p : ReMatch(p, c.name))
    IN  filtered_channels
          \o Concat([i \in 1..Len(channels) |->
                       [m \in 1..Len(Matches(channels[i])) |-> channels[i]]])

\* _filter_channels: the channels whose name is one of the patterns that do not
\* compile, then, channel by channel, one entry per compiling pattern that matches
FilterChannels(channels, patterns) ==
    LET regex_patterns == SelectSeq(patterns, LAMBDA p : IsRegex(p))
        exact_names == SelectSeq(patterns, LAMBDA p : ~IsRegex(p))
        filtered_channels == SelectSeq(channels, LAMBDA c : c.name \in PySet(exact_names))
        Matches(c) == SelectSeq(regex_patterns, LAMBDA p : ReMatch(p, c.name))
    IN  filtered_channels
          \o Concat([i \in 1..Len(channels) |->
                       [m \in 1..Len(Matches(channels[i])) |-> channels[i]]])

\* _get_channel_ids, given what _list_channels returned
GetChannelIds(channels, patterns) ==
    LET filtered_channels == FilterChannels(channels, patterns)
    IN  [i \in 1..Len(filtered_channels) |-> filtered_channels[i].id]

----------------------------------------------------------------------------
(* Values of the program.                                                  *)

\* Document(id_=channel_id, text=channel_content, metadata={"channel": channel_id})
Document(channel_id, channel_content) ==
    [id_ |-> channel_id, text |-> channel_content, metadata |-> [channel |-> channel_id]]

\* the fields before __init__ has set them
NoFields == [earliest_date_timestamp |-> None, latest_date_timestamp |-> None]

\* no call of load_data is under way
NoLoad ==
    [ids_arg |-> <<>>, channel_patterns |-> <<>>, reverse_chronological |-> TRUE,
     channels |-> <<>>, pattern_channel_ids |-> <<>>, channel_ids |-> <<>>,
     pos |-> 1, results |-> <<>>]

\* no response has been received
NoResult == [messages |-> <<>>, has_more |-> FALSE, next_cursor |-> NoCursor]

\* no call of _read_channel is under way
NoChannel ==
    [channel_id |-> "-", result_messages |-> <<>>, next_cursor |-> NoCursor,
     result |-> NoResult, n |-> 0]

\* no call of _read_message is under way
NoThread == [message_ts |-> "-", messages_text |-> <<>>, next_cursor |-> NoCursor]

\* the signals the API may send during one _read_channel call
Limits == [ratelimited |-> MaxRateLimits, errors |-> MaxErrors]

\* the API before any request: nothing is down, no exception is pending
QuietEnv ==
    [down |-> {}, limits |-> Limits, ratelimited |-> 0, errors |-> 0,
     exc |-> "none", retry_after |-> "-"]

\* the keyword arguments of a conversations_history request
HistoryKwargs(fields, channel_id, next_cursor) ==
    [channel |-> channel_id,
     ts |-> "-",
     cursor |-> next_cursor,
     latest |-> Str(fields.latest_date_timestamp),
     oldest |-> IF fields.earliest_date_timestamp # None
                THEN Str(fields.earliest_date_timestamp) ELSE "absent"]

\* the keyword arguments of a conversations_replies request
RepliesKwargs(fields, channel_id, message_ts, next_cursor) ==
    IF fields.earliest_date_timestamp = None
    THEN [channel |-> channel_id, ts |-> message_ts, cursor |-> next_cursor,
          latest |-> "absent", oldest |-> "absent"]
    ELSE [channel |-> channel_id, ts |-> message_ts, cursor |-> next_cursor,
          latest |-> Str(fields.latest_date_timestamp),
          oldest |-> IF fields.earliest_date_timestamp # None
                     THEN Str(fields.earliest_date_timestamp) ELSE "absent"]

----------------------------------------------------------------------------
(* The observation log of one _read_channel call.                          *)

\* a request, the size of its loop's accumulator when it is sent, and how the
\* API answered it
ReqEvent(kind, kwargs, acc, outcome, retry_after, result) ==
    [type |-> "request", kind |-> kind, channel |-> kwargs.channel, ts |-> kwargs.ts,
     cursor |-> kwargs.cursor, oldest |-> kwargs.oldest, latest |-> kwargs.latest,
     acc |-> acc, outcome |-> outcome, retry_after |-> retry_after, result |-> result,
     seconds |-> 0, text |-> ""]

\* time.sleep(seconds), in the loop of that kind
SleepEvent(kind, seconds) ==
    [type |-> "sleep", kind |-> kind, channel |-> "-", ts |-> "-",
     cursor |-> NoCursor, oldest |-> "-", latest |-> "-",
     acc |-> 0, outcome |-> "-", retry_after |-> "-", result |-> NoResult,
     seconds |-> seconds, text |-> ""]

\* the return of _read_message (kind "replies") or _read_channel (kind "history")
ReturnEvent(kind, channel_id, message_ts, text) ==
    [type |-> "return", kind |-> kind, channel |-> channel_id, ts |-> message_ts,
     cursor |-> NoCursor, oldest |-> "-", latest |-> "-",
     acc |-> 0, outcome |-> "-", retry_after |-> "-", result |-> NoResult,
     seconds |-> 0, text |-> text]

\* the conversations_list request of _list_channels and how the API answered it
ListEvent(outcome, retry_after) ==
    [type |-> "listing", kind |-> "list", channel |-> "-", ts |-> "-",
     cursor |-> NoCursor, oldest |-> "-", latest |-> "-",
     acc |-> 0, outcome |-> outcome, retry_after |-> retry_after, result |-> NoResult,
     seconds |-> 0, text |-> ""]

\* the log with one more entry, while it has room
Logged(lg, event) == IF Len(lg) < MaxEvents THEN Append(lg, event) ELSE lg

\* the log has dropped nothing
Complete(lg) == Len(lg) < MaxEvents

----------------------------------------------------------------------------
(* Construction.                                                           *)

\* a window check that also counts the raw timestamps
WindowRejectedAnyForm(a) ==
    /\ a.latest_date # None \/ a.latest_date_timestamp # None
    /\ a.earliest_date = None /\ a.earliest_date_timestamp = None

\* the window check of __init__ raises ValueError (line 67)
WindowRejected(a) == a.latest_date # None /\ a.earliest_date = None

\* earliest_date_timestamp as __init__ sets it
EarliestOf(a) ==
    IF a.earliest_date # None THEN Timestamp(a.earliest_date)
    ELSE PyOr(None, a.earliest_date_timestamp)

\* latest_date_timestamp as __init__ sets it
LatestOf(a) ==
    IF a.latest_date # None THEN Timestamp(a.latest_date)
    ELSE PyOr(a.now, a.latest_date_timestamp)

\* the arguments a caller may pass, the clock, and whether api_test answers ok
ArgSets ==
    [earliest_date : {None, 1}, latest_date : {None, 2},
     earliest_date_timestamp : {None, 30}, latest_date_timestamp : {None, 90},
     now : {200}, api_ok : BOOLEAN]

\* no constructor call is in sight
NoArgs ==
    [earliest_date |-> None, latest_date |-> None,
     earliest_date_timestamp |-> None, latest_date_timestamp |-> None,
     now |-> 0, api_ok |-> FALSE]

Init ==
    /\ args = NoArgs
    /\ self = NoFields
    /\ pc = "new"
    /\ load = NoLoad
    /\ chan = NoChannel
    /\ thr = NoThread
    /\ env = QuietEnv
    /\ log = <<>>

\* SlackReader(...) called with the arguments a (lines 44-87)
Construct(a) ==
    /\ pc = "new"
    /\ args' = a
    /\ IF WindowRejected(a)
       THEN pc' = "raised_window" /\ self' = self
       ELSE IF ~a.api_ok
       THEN pc' = "raised_api" /\ self' = self
       ELSE /\ pc' = "ready"
            /\ self' = [earliest_date_timestamp |-> EarliestOf(a),
                        latest_date_timestamp |-> LatestOf(a)]
    /\ UNCHANGED <<load, chan, thr, env, log>>

----------------------------------------------------------------------------
(* load_data, up to its loop over the channels.                            *)

\* the lists a caller may pass as channel_ids; None is passed as the empty list,
\* load_data only ever tests it for truth before line 223
IdLists == {<<>>, <<"B", "A">>, <<"B", "B">>}

\* the lists a caller may pass as channel_patterns
PatternLists ==
    {<<>>,
     << <<"b", "(">>, <<"b">>, <<"b", ".">> >>,
     << <<".">> >>}

\* the outages a call of load_data may meet
DownSets == {{}, {"B"}}

\* an input check that wants channel_ids whatever the patterns
InputRejectedWithoutIds(channel_ids, channel_patterns) == channel_ids = <<>>

\* not channel_ids and not channel_patterns (line 213): load_data raises ValueError
InputRejected(channel_ids, channel_patterns) ==
    channel_ids = <<>> /\ channel_patterns = <<>>

\* channel_ids after lines 217-225: a set's iteration order is any order
Combined(channel_ids, pattern_channel_ids) ==
    IF channel_ids # <<>>
    THEN ListsOfSet(PySet(channel_ids \o pattern_channel_ids))
    ELSE {pattern_channel_ids}

\* load_data(channel_ids, channel_patterns, reverse_chronological), to its first
\* request; down are the channels whose history the API cannot serve meanwhile
Load(channel_ids, channel_patterns, reverse_chronological, down) ==
    /\ pc \in {"ready", "returned", "raised_input"}
    /\ load' = [NoLoad EXCEPT !.ids_arg = channel_ids,
                              !.channel_patterns = channel_patterns,
                              !.reverse_chronological = reverse_chronological,
                              !.channel_ids = channel_ids]
    /\ pc' = IF InputRejected(channel_ids, channel_patterns) THEN "raised_input"
             ELSE IF channel_patterns # <<>> THEN "list_channels"
             ELSE "channels"
    /\ chan' = NoChannel
    /\ thr' = NoThread
    /\ env' = [QuietEnv EXCEPT !.down = down]
    /\ log' = <<>>
    /\ args' = NoArgs    \* the constructor call is out of sight from here on
    /\ self' = self

\* the rest of lines 217-225, given how conversations_list was answered and
\* what _list_channels returned
Resolve(channels, outcome, retry_after) ==
    LET pattern_channel_ids == GetChannelIds(channels, load.channel_patterns)
    IN  /\ pc = "list_channels"
        /\ \E ids \in Combined(load.ids_arg, pattern_channel_ids) :
              load' = [load EXCEPT !.channels = channels,
                                   !.pattern_channel_ids = pattern_channel_ids,
                                   !.channel_ids = ids]
        /\ pc' = "channels"
        /\ log' = Logged(log, ListEvent(outcome, retry_after))
        /\ UNCHANGED <<args, self, chan, thr, env>>

\* conversations_list answers
ListChannelsOk == Resolve(Channels, "ok", "-")

\* the SlackApiErrors conversations_list may raise: a rate limit or another error
ListFailures ==
    {[error |-> "ratelimited", retry_after |-> h] : h \in RetryAfterHeaders}
        \cup {[error |-> "error", retry_after |-> "-"]}

\* a resolver that treats a rate limit as the fetch loops do: sleep, ask again
ListChannelsErrorRetries(e) ==
    IF e.error = "ratelimited"
    THEN /\ pc = "list_channels"
         /\ Len(log) < 2
         /\ pc' = "list_channels"
         /\ log' = Logged(Logged(log, ListEvent(e.error, e.retry_after)),
                          SleepEvent("list", PyInt(e.retry_after)))
         /\ UNCHANGED <<args, self, load, chan, thr, env>>
    ELSE Resolve(<<>>, e.error, e.retry_after)

\* conversations_list raises the SlackApiError e: _list_channels logs it and
\* returns [] (lines 257-259)
ListChannelsError(e) == Resolve(<<>>, e.error, e.retry_after)

\* load_data's frame once its loop runs: the arguments as passed, the listing
\* and pattern_channel_ids are not read after line 225
InLoop(ld) ==
    [ld EXCEPT !.ids_arg = <<>>, !.channel_patterns = <<>>, !.channels = <<>>,
               !.pattern_channel_ids = <<>>]

\* the loop over channel_ids calls _read_channel on the next one
NextChannel ==
    /\ pc = "channels"
    /\ load.pos <= Len(load.channel_ids)
    /\ pc' = "history"
    /\ load' = InLoop(load)
    /\ chan' = [NoChannel EXCEPT !.channel_id = load.channel_ids[load.pos]]
    /\ thr' = NoThread
    /\ env' = [QuietEnv EXCEPT !.down = env.down, !.limits = env.limits]
    /\ log' = <<>>
    /\ UNCHANGED <<args, self>>

\* the loop over channel_ids is over: load_data returns results
LoadReturn ==
    /\ pc = "channels"
    /\ load.pos > Len(load.channel_ids)
    /\ pc' = "returned"
    /\ load' = InLoop(load)
    /\ chan' = NoChannel
    /\ env' = QuietEnv
    /\ log' = <<>>
    /\ UNCHANGED <<args, self, thr>>

----------------------------------------------------------------------------
(* _read_channel and _read_message: what follows a response, up to the     *)
(* next request.  Each operator gives the next pc, frames and log.         *)

\* a return that joins result_messages as collected whatever the flag
ChannelReturnNeverReversed(ld, ch, lg) ==
    LET text == Join(ch.result_messages)
    IN  [pc |-> "channels",
         load |-> [ld EXCEPT !.results = Append(@, Document(ch.channel_id, text)),
                             !.pos = @ + 1],
         chan |-> ch,
         thr |-> NoThread,
         log |-> Logged(lg, ReturnEvent("history", ch.channel_id, "-", text))]

\* a loop that puts each new document in front of the earlier ones
ChannelReturnPrepends(ld, ch, lg) ==
    LET text == IF ld.reverse_chronological THEN Join(ch.result_messages)
                ELSE Join(Reversed(ch.result_messages))
    IN  [pc |-> "channels",
         load |-> [ld EXCEPT !.results = <<Document(ch.channel_id, text)>> \o @,
                             !.pos = @ + 1],
         chan |-> ch,
         thr |-> NoThread,
         log |-> Logged(lg, ReturnEvent("history", ch.channel_id, "-", text))]

\* a loop that appends no document for a channel whose text is empty
ChannelReturnSkipsEmpty(ld, ch, lg) ==
    LET text == IF ld.reverse_chronological THEN Join(ch.result_messages)
                ELSE Join(Reversed(ch.result_messages))
    IN  [pc |-> "channels",
         load |-> [ld EXCEPT !.results = IF text = "" THEN @
                                         ELSE Append(@, Document(ch.channel_id, text)),
                             !.pos = @ + 1],
         chan |-> ch,
         thr |-> NoThread,
         log |-> Logged(lg, ReturnEvent("history", ch.channel_id, "-", text))]

\* _read_channel returns (lines 191-195) and load_data appends the document
ChannelReturn(ld, ch, lg) ==
    LET text == IF ld.reverse_chronological THEN Join(ch.result_messages)
                ELSE Join(Reversed(ch.result_messages))
    IN  [pc |-> "channels",
         load |-> [ld EXCEPT !.results = Append(@, Document(ch.channel_id, text)),
                             !.pos = @ + 1],
         chan |-> ch,
         thr |-> NoThread,
         log |-> Logged(lg, ReturnEvent("history", ch.channel_id, "-", text))]

\* a loop that forgets to adopt next_cursor
PageDoneKeepsCursor(ld, ch, lg) ==
    IF ~ch.result.has_more THEN ChannelReturn(ld, ch, lg)
    ELSE [pc |-> "history", load |-> ld, chan |-> ch, thr |-> NoThread, log |-> lg]

\* the page's messages are all expanded (lines 176-178)
PageDone(ld, ch, lg) ==
    IF ~ch.result.has_more THEN ChannelReturn(ld, ch, lg)
    ELSE [pc |-> "history",
          load |-> ld,
          chan |-> [ch EXCEPT !.next_cursor = ch.result.next_cursor],
          thr |-> NoThread,
          log |-> lg]

\* two loops that share one next_cursor variable
NextMessageSharesCursor(ld, ch, lg) ==
    IF ch.n < Len(ch.result.messages)
    THEN [pc |-> "replies",
          load |-> ld,
          chan |-> [ch EXCEPT !.n = @ + 1],
          thr |-> [NoThread EXCEPT !.message_ts = ch.result.messages[ch.n + 1],
                                   !.next_cursor = ch.next_cursor],
          log |-> lg]
    ELSE PageDone(ld, ch, lg)

\* result_messages.extend(...) takes the page's next message (lines 172-175)
NextMessage(ld, ch, lg) ==
    IF ch.n < Len(ch.result.messages)
    THEN [pc |-> "replies",
          load |-> ld,
          chan |-> [ch EXCEPT !.n = @ + 1],
          thr |-> [NoThread EXCEPT !.message_ts = ch.result.messages[ch.n + 1]],
          log |-> lg]
    ELSE PageDone(ld, ch, lg)

\* a thread whose replies follow the flag as the blocks of a channel do
ThreadReturnFollowsFlag(ld, ch, th, lg) ==
    LET text == IF ld.reverse_chronological THEN Join(th.messages_text)
                ELSE Join(Reversed(th.messages_text))
    IN  NextMessage(ld,
                    [ch EXCEPT !.result_messages = Append(@, text)],
                    Logged(lg, ReturnEvent("replies", ch.channel_id, th.message_ts, text)))

\* a loop that adds the thread's text to result_messages twice over
ThreadReturnAppendsTwice(ld, ch, th, lg) ==
    LET text == Join(th.messages_text)
    IN  NextMessage(ld,
                    [ch EXCEPT !.result_messages = Append(Append(@, text), text)],
                    Logged(lg, ReturnEvent("replies", ch.channel_id, th.message_ts, text)))

\* _read_message returns (line 140) and its text joins result_messages
ThreadReturn(ld, ch, th, lg) ==
    LET text == Join(th.messages_text)
    IN  NextMessage(ld,
                    [ch EXCEPT !.result_messages = Append(@, text)],
                    Logged(lg, ReturnEvent("replies", ch.channel_id, th.message_ts, text)))

\* the program moves on to nxt
Goto(nxt) ==
    /\ pc' = nxt.pc
    /\ load' = nxt.load
    /\ chan' = nxt.chan
    /\ thr' = nxt.thr
    /\ log' = nxt.log

----------------------------------------------------------------------------
(* The loop of _read_channel.                                              *)

\* conversations_history answers with a page (lines 155-178)
HistoryOk ==
    /\ pc = "history"
    /\ chan.channel_id \notin env.down
    /\ LET kwargs == HistoryKwargs(self, chan.channel_id, chan.next_cursor)
           result == HistoryResponse(chan.channel_id, chan.next_cursor)
       IN  Goto(NextMessage(load,
                            [chan EXCEPT !.result = result, !.n = 0],
                            Logged(log, ReqEvent("history", kwargs, Len(chan.result_messages),
                                                 "ok", "-", result))))
    /\ UNCHANGED <<args, self, env>>

\* conversations_history raises SlackApiError "ratelimited"
HistoryRateLimited(retry_after) ==
    /\ pc = "history"
    /\ chan.channel_id \notin env.down
    /\ env.ratelimited < env.limits.ratelimited
    /\ pc' = "history_except"
    /\ env' = [env EXCEPT !.ratelimited = @ + 1, !.exc = "ratelimited",
                          !.retry_after = retry_after]
    /\ log' = Logged(log, ReqEvent("history",
                                   HistoryKwargs(self, chan.channel_id, chan.next_cursor),
                                   Len(chan.result_messages),
                                   "ratelimited", retry_after, NoResult))
    /\ UNCHANGED <<args, self, load, chan, thr>>

\* conversations_history raises another SlackApiError: on every request for a
\* channel that is down, now and then for the others
HistoryError ==
    /\ pc = "history"
    /\ chan.channel_id \in env.down \/ env.errors < env.limits.errors
    /\ pc' = "history_except"
    /\ env' = [env EXCEPT !.errors = IF chan.channel_id \in env.down THEN @ ELSE @ + 1,
                          !.exc = "error"]
    /\ log' = Logged(log, ReqEvent("history",
                                   HistoryKwargs(self, chan.channel_id, chan.next_cursor),
                                   Len(chan.result_messages),
                                   "error", "-", NoResult))
    /\ UNCHANGED <<args, self, load, chan, thr>>

\* a handler that gives up on a rate limit: it sleeps, then leaves the loop
HistoryExceptGivesUp ==
    /\ pc = "history_except"
    /\ IF env.exc = "ratelimited"
       THEN Goto(ChannelReturn(load, chan,
                               Logged(log, SleepEvent("history", PyInt(env.retry_after)))))
       ELSE /\ pc' = "history"
            /\ UNCHANGED <<load, chan, thr, log>>
    /\ env' = [env EXCEPT !.exc = "none", !.retry_after = "-"]
    /\ UNCHANGED <<args, self>>

\* a handler that sleeps one second whatever the retry-after header says
HistoryExceptShortSleep ==
    /\ pc = "history_except"
    /\ pc' = "history"
    /\ log' = IF env.exc = "ratelimited" THEN Logged(log, SleepEvent("history", 1)) ELSE log
    /\ env' = [env EXCEPT !.exc = "none", !.retry_after = "-"]
    /\ UNCHANGED <<args, self, load, chan, thr>>

\* except SlackApiError of _read_channel (lines 180-189): sleep on a rate
\* limit, log any other error; either way the loop goes round again
HistoryExcept ==
    /\ pc = "history_except"
    /\ pc' = "history"
    /\ log' = IF env.exc = "ratelimited"
              THEN Logged(log, SleepEvent("history", PyInt(env.retry_after)))
              ELSE log
    /\ env' = [env EXCEPT !.exc = "none", !.retry_after = "-"]
    /\ UNCHANGED <<args, self, load, chan, thr>>

----------------------------------------------------------------------------
(* The loop of _read_message.                                              *)

\* conversations_replies answers with a page (lines 104-127)
RepliesOk ==
    /\ pc = "replies"
    /\ LET kwargs == RepliesKwargs(self, chan.channel_id, thr.message_ts, thr.next_cursor)
           result == RepliesResponse(chan.channel_id, thr.message_ts, thr.next_cursor)
           lg == Logged(log, ReqEvent("replies", kwargs, Len(thr.messages_text),
                                     "ok", "-", result))
           th == [thr EXCEPT !.messages_text = @ \o result.messages]
       IN  IF ~result.has_more
           THEN Goto(ThreadReturn(load, chan, th, lg))
           ELSE /\ thr' = [th EXCEPT !.next_cursor = result.next_cursor]
                /\ log' = lg
                /\ UNCHANGED <<pc, load, chan>>
    /\ UNCHANGED <<args, self, env>>

\* conversations_replies raises SlackApiError "ratelimited"
RepliesRateLimited(retry_after) ==
    /\ pc = "replies"
    /\ env.ratelimited < env.limits.ratelimited
    /\ pc' = "replies_except"
    /\ env' = [env EXCEPT !.ratelimited = @ + 1, !.exc = "ratelimited",
                          !.retry_after = retry_after]
    /\ log' = Logged(log, ReqEvent("replies",
                                   RepliesKwargs(self, chan.channel_id, thr.message_ts,
                                                 thr.next_cursor),
                                   Len(thr.messages_text),
                                   "ratelimited", retry_after, NoResult))
    /\ UNCHANGED <<args, self, load, chan, thr>>

\* conversations_replies raises another SlackApiError
RepliesError ==
    /\ pc = "replies"
    /\ env.errors < env.limits.errors
    /\ pc' = "replies_except"
    /\ env' = [env EXCEPT !.errors = @ + 1, !.exc = "error"]
    /\ log' = Logged(log, ReqEvent("replies",
                                   RepliesKwargs(self, chan.channel_id, thr.message_ts,
                                                 thr.next_cursor),
                                   Len(thr.messages_text),
                                   "error", "-", NoResult))
    /\ UNCHANGED <<args, self, load, chan, thr>>

\* a handler that does not break on an error other than a rate limit
RepliesExceptNoBreak ==
    /\ pc = "replies_except"
    /\ pc' = "replies"
    /\ log' = IF env.exc = "ratelimited"
              THEN Logged(log, SleepEvent("replies", PyInt(env.retry_after)))
              ELSE log
    /\ env' = [env EXCEPT !.exc = "none", !.retry_after = "-"]
    /\ UNCHANGED <<args, self, load, chan, thr>>

\* a handler whose error ends the enclosing _read_channel call as well
RepliesExceptEndsChannel ==
    /\ pc = "replies_except"
    /\ IF env.exc = "ratelimited"
       THEN /\ pc' = "replies"
            /\ log' = Logged(log, SleepEvent("replies", PyInt(env.retry_after)))
            /\ UNCHANGED <<load, chan, thr>>
       ELSE Goto(ChannelReturn(load, chan, log))
    /\ env' = [env EXCEPT !.exc = "none", !.retry_after = "-"]
    /\ UNCHANGED <<args, self>>

\* except SlackApiError of _read_message (lines 128-138): sleep on a rate
\* limit and go round again; log any other error and break
RepliesExcept ==
    /\ pc = "replies_except"
    /\ IF env.exc = "ratelimited"
       THEN /\ pc' = "replies"
            /\ log' = Logged(log, SleepEvent("replies", PyInt(env.retry_after)))
            /\ UNCHANGED <<load, chan, thr>>
       ELSE Goto(ThreadReturn(load, chan, thr, log))
    /\ env' = [env EXCEPT !.exc = "none", !.retry_after = "-"]
    /\ UNCHANGED <<args, self>>

----------------------------------------------------------------------------

Next ==
    \/ \E a \in ArgSets : Construct(a)
    \/ \E ids \in IdLists, patterns \in PatternLists, rc \in BOOLEAN, down \in DownSets :
          Load(ids, patterns, rc, down)
    \/ ListChannelsOk
    \/ \E e \in ListFailures : ListChannelsError(e)
    \/ NextChannel
    \/ LoadReturn
    \/ HistoryOk
    \/ \E h \in RetryAfterHeaders : HistoryRateLimited(h)
    \/ HistoryError
    \/ HistoryExcept
    \/ RepliesOk
    \/ \E h \in RetryAfterHeaders : RepliesRateLimited(h)
    \/ RepliesError
    \/ RepliesExcept

Spec == Init /\ [][Next]_vars

\* the program always takes its next step, and the API always answers
FairSpec == Spec /\ WF_vars(Next)

----------------------------------------------------------------------------
(* The fetch loops against an API that answers every request with a page   *)
(* or a rate-limit signal, and sends many such signals.                    *)

\* rate-limit signals the API sends during one _read_channel call
MaxRetries == 3

\* the fields of the readers __init__ can construct
ConstructedFields ==
    {[earliest_date_timestamp |-> EarliestOf(a), latest_date_timestamp |-> LatestOf(a)] :
        a \in {b \in ArgSets : ~WindowRejected(b) /\ b.api_ok}}

\* load_data of a constructed reader is about to loop over one channel
RetryInit ==
    /\ args = NoArgs
    /\ self \in ConstructedFields
    /\ pc = "channels"
    /\ load \in {[NoLoad EXCEPT !.channel_ids = ids, !.reverse_chronological = rc] :
                    ids \in {<<"A">>, <<"B">>}, rc \in BOOLEAN}
    /\ chan = NoChannel
    /\ thr = NoThread
    /\ env = [QuietEnv EXCEPT !.limits = [ratelimited |-> MaxRetries, errors |-> 0]]
    /\ log = <<>>

RetryNext ==
    \/ NextChannel
    \/ LoadReturn
    \/ HistoryOk
    \/ \E h \in RetryAfterHeaders : HistoryRateLimited(h)
    \/ HistoryExcept
    \/ RepliesOk
    \/ \E h \in RetryAfterHeaders : RepliesRateLimited(h)
    \/ RepliesExcept

RetrySpec == RetryInit /\ [][RetryNext]_vars

----------------------------------------------------------------------------
(* The channel resolver on its own: _get_channel_ids applied to any short  *)
(* list of patterns and a listing of the workspace.                        *)

\* patterns in a list
MaxPatterns == 2

\* the patterns a caller may put in a list: an unbalanced parenthesis, a literal
\* that begins a name, wildcards, a literal that is a whole name, a repetition,
\* an anchored literal, and a repetition of nothing
PatternPool ==
    {<<"b", "(">>, <<"b">>, <<"b", ".">>, <<".">>, <<"a", "b">>, <<"a", "*">>,
     <<"^", "b">>, <<"*">>}

\* the pattern lists of at most MaxPatterns patterns
PatternSeqs == UNION {[1..n -> PatternPool] : n \in 0..MaxPatterns}

\* the listings conversations_list may answer with
Listings == {Channels, Reversed(Channels)}

ResolverInit ==
    /\ args = NoArgs
    /\ self = NoFields
    /\ pc = "get_channel_ids"
    /\ load \in {[NoLoad EXCEPT !.channel_patterns = patterns, !.channels = channels] :
                    patterns \in PatternSeqs, channels \in Listings}
    /\ chan = NoChannel
    /\ thr = NoThread
    /\ env = QuietEnv
    /\ log = <<>>

\* _get_channel_ids filters the listing and returns the ids (lines 285-288)
GetChannelIdsReturn ==
    /\ pc = "get_channel_ids"
    /\ pc' = "got_channel_ids"
    /\ load' = [load EXCEPT !.pattern_channel_ids =
                                 GetChannelIds(load.channels, load.channel_patterns)]
    /\ UNCHANGED <<args, self, chan, thr, env, log>>

ResolverNext == GetChannelIdsReturn

ResolverSpec == ResolverInit /\ [][ResolverNext]_vars

----------------------------------------------------------------------------
(* Reading the log.                                                        *)

IsRequest(e, kind) == e.type = "request" /\ e.kind = kind

IsReturn(e, kind) == e.type = "return" /\ e.kind = kind

\* a request or a sleep of the loop of _read_message
InThread(e) == e.kind = "replies" /\ e.type # "return"

\* where the call of _read_message that returns at log[j] begins
ThreadStart(j) ==
    CHOOSE b \in 1..j :
        /\ \A i \in b..(j - 1) : InThread(log[i])
        /\ b = 1 \/ ~InThread(log[b - 1])

\* the reply texts of the pages log[b..j-1] delivered, in delivery order
Delivered(b, j) ==
    LET ok == SelectSeq(SubSeq(log, b, j - 1), LAMBDA e : e.outcome = "ok")
    IN  Concat([i \in 1..Len(ok) |-> ok[i].result.messages])

\* the history requests of the log, in order
HistoryRequests == SelectSeq(log, LAMBDA e : IsRequest(e, "history"))

\* the texts _read_message has returned, in order
ThreadTexts ==
    LET returns == SelectSeq(log, LAMBDA e : IsReturn(e, "replies"))
    IN  [i \in 1..Len(returns) |-> returns[i].text]

\* no request of the log has failed
NeverFailed == \A i \in 1..Len(log) : log[i].type = "request" => log[i].outcome = "ok"

\* _read_channel has just returned: its return is the last entry of the log
ChannelReturned ==
    /\ pc = "channels"
    /\ log # <<>>
    /\ IsReturn(log[Len(log)], "history")

----------------------------------------------------------------------------
(* The claims.                                                             *)

\* C1: in _read_channel, a history request that fails with an error other than a
\* rate limit ends the loop: no history request follows it, and once the handler
\* has run the call has returned the text accumulated so far.
C1_ErrorEndsChannelFetch ==
    \A i \in 1..Len(log) :
        IsRequest(log[i], "history") /\ log[i].outcome = "error" =>
            /\ \A j \in (i + 1)..Len(log) : ~IsRequest(log[j], "history")
            /\ pc # "history_except" =>
                   /\ pc = "channels"
                   /\ Len(log) = i + 1
                   /\ IsReturn(log[i + 1], "history")

\* C2: a call of _read_message that meets an error other than a rate limit
\* returns, right after that error and with no further replies request, the reply
\* texts of the pages delivered before it, joined by a blank line in delivery order.
C2_ThreadErrorReturnsPrefix ==
    \A i \in 1..Len(log) :
        IsRequest(log[i], "replies") /\ log[i].outcome = "error" =>
            /\ \A j \in (i + 1)..Len(log) :
                   ~(IsRequest(log[j], "replies") /\ log[j].ts = log[i].ts)
            /\ Complete(log) /\ (pc # "replies_except" \/ i < Len(log)) =>
                   /\ i < Len(log)
                   /\ IsReturn(log[i + 1], "replies")
                   /\ log[i + 1].ts = log[i].ts
                   /\ log[i + 1].text = Join(Delivered(ThreadStart(i + 1), i + 1))

\* C2's case: a thread of two pages delivered its first page, was rate limited,
\* then met an error, and _read_message returned the first page's text.
C2_Witness ==
    \E i \in 3..Len(log) :
        /\ IsRequest(log[i], "replies") /\ log[i].outcome = "error"
        /\ i < Len(log) /\ IsReturn(log[i + 1], "replies")
        /\ log[i + 1].text = "N1"
        /\ \E j \in ThreadStart(i + 1)..i : log[j].outcome = "ratelimited"

\* C3: after a rate-limited request the loop sleeps the seconds of the
\* retry-after header and then sends the same request again: same resource, same
\* cursor, and an accumulator of the same size as before.
C3_RateLimitRetriesSamePage ==
    \A i \in 1..Len(log) :
        log[i].type = "request" /\ log[i].outcome = "ratelimited" =>
            /\ i + 1 <= Len(log) =>
                   /\ log[i + 1].type = "sleep"
                   /\ log[i + 1].kind = log[i].kind
                   /\ log[i + 1].seconds = PyInt(log[i].retry_after)
            /\ i + 2 <= Len(log) =>
                   /\ log[i + 2].type = "request"
                   /\ log[i + 2].kind = log[i].kind
                   /\ log[i + 2].channel = log[i].channel
                   /\ log[i + 2].ts = log[i].ts
                   /\ log[i + 2].cursor = log[i].cursor
                   /\ log[i + 2].acc = log[i].acc
            /\ i = Len(log) /\ Complete(log) =>
                   /\ pc = IF log[i].kind = "history" THEN "history_except" ELSE "replies_except"
                   /\ env.exc = "ratelimited"

\* C3's case: the request for the second page of a history was rate limited
\* with retry-after 3, the loop slept 3 seconds and asked for that page again.
C3_Witness ==
    \E i \in 1..Len(log) :
        /\ IsRequest(log[i], "history") /\ log[i].outcome = "ratelimited"
        /\ log[i].cursor # NoCursor
        /\ log[i].retry_after = "3"
        /\ i + 2 <= Len(log)
        /\ log[i + 2].outcome = "ok"

\* C4: while no request fails, the history requests of a channel fetch follow the
\* pages: the first carries no cursor, each later one the next_cursor of the
\* response before it, and when the fetch returns there are exactly as many as
\* the channel has pages.
C4_OneRequestPerPage ==
    NeverFailed =>
        LET H == HistoryRequests
        IN  /\ \A k \in 1..Len(H) :
                  /\ k = 1 => H[k].cursor = NoCursor
                  /\ k > 1 => H[k - 1].result.has_more /\ H[k].cursor = H[k - 1].result.next_cursor
                  /\ H[k].channel = chan.channel_id
            /\ Len(H) <= Len(HistoryPages(chan.channel_id))
            /\ ChannelReturned => Len(H) = Len(HistoryPages(chan.channel_id))

\* C4's case: a channel of two history pages was fetched without any failure.
C4_Witness ==
    /\ ChannelReturned
    /\ NeverFailed
    /\ Len(HistoryRequests) = 2
    /\ HistoryRequests[2].cursor # NoCursor

\* C5: what _read_channel returns is the texts _read_message returned, joined by a
\* blank line in delivery order when reverse_chronological is true and in the
\* reverse of delivery order when it is false.
C5_ChannelTextOrder ==
    ChannelReturned =>
        LET text == load.results[Len(load.results)].text
        IN  /\ text = log[Len(log)].text
            /\ load.reverse_chronological => text = Join(ThreadTexts)
            /\ ~load.reverse_chronological => text = Join(Reversed(ThreadTexts))

\* C5's case: three messages over two pages, returned in reverse of delivery order.
C5_Witness ==
    /\ ChannelReturned
    /\ ~load.reverse_chronological
    /\ ThreadTexts = <<"M1", "M2\n\nR2", "">>
    /\ load.results[Len(load.results)].text = "\n\nM2\n\nR2\n\nM1"

\* the ids of the documents load_data has collected, in order
ResultIds == [i \in 1..Len(load.results) |-> load.results[i].id_]

\* load_data is about to start its loop over channel_ids
Resolved == pc = "channels" /\ load.pos = 1

\* C6: the channel ids load_data iterates over are those among the explicit ids
\* and the ids the patterns resolved to, and a load that returns has produced
\* exactly one document for each distinct one of them: no two documents share an
\* id, whether ids, patterns or both were supplied.
C6_OneDocumentPerDistinctId ==
    /\ Resolved =>
           PySet(load.channel_ids)
               = PySet(load.ids_arg) \cup PySet(load.pattern_channel_ids)
    /\ pc = "returned" =>
           /\ \A i, j \in 1..Len(ResultIds) : i # j => ResultIds[i] # ResultIds[j]
           /\ PySet(ResultIds) = PySet(load.channel_ids)

\* C7: once load_data iterates over the channels it eventually returns, with a
\* document for every channel id it iterates over, whatever errors the API sends.
C7_LoadEventuallyReturns ==
    (pc = "channels") ~> (pc = "returned" /\ Len(load.results) = Len(load.channel_ids))

\* the constructor call is in sight: it has ended and load_data has not begun
Constructed == pc \in {"ready", "raised_window", "raised_api"} /\ args # NoArgs

\* a latest bound is supplied, as a date or as a raw timestamp
LatestSupplied(a) == a.latest_date # None \/ a.latest_date_timestamp # None

\* an earliest bound is supplied, as a date or as a raw timestamp
EarliestSupplied(a) == a.earliest_date # None \/ a.earliest_date_timestamp # None

\* C8 as stated: construction fails whenever a latest bound is supplied in either
\* form and no earliest bound in any form, and never fails on window grounds when
\* an earliest bound is supplied in either form.
C8_AnyFormWindowCheck ==
    Constructed =>
        /\ LatestSupplied(args) /\ ~EarliestSupplied(args) => pc # "ready"
        /\ EarliestSupplied(args) => pc # "raised_window"

\* C8 as amended: construction fails on window grounds exactly when latest_date
\* is supplied and earliest_date is not; the raw timestamps play no part.
C8_DateOnlyWindowCheck ==
    Constructed =>
        (pc = "raised_window" <=> args.latest_date # None /\ args.earliest_date = None)

\* C8's case: a call with latest_date and a raw earliest timestamp but no
\* earliest_date has been rejected.
C8_Witness ==
    /\ pc = "raised_window"
    /\ args.latest_date # None
    /\ args.earliest_date_timestamp # None

\* C9: every request of either loop carries oldest and latest when earliest is
\* set, and neither of them when it is not.
C9_SameBoundsRule ==
    \A i \in 1..Len(log) :
        log[i].type = "request" =>
            IF self.earliest_date_timestamp # None
            THEN /\ log[i].oldest = Str(self.earliest_date_timestamp)
                 /\ log[i].latest = Str(self.latest_date_timestamp)
            ELSE /\ log[i].oldest = "absent"
                 /\ log[i].latest = "absent"

\* the latest bound the caller specified, or the construction time
SpecifiedLatest(a) ==
    IF a.latest_date # None THEN Timestamp(a.latest_date)
    ELSE IF a.latest_date_timestamp # None THEN a.latest_date_timestamp
    ELSE a.now

\* C10: the upper bound fixed at construction is the caller's latest value,
\* given as latest_date or as latest_date_timestamp, and the construction time
\* only when neither is given; every later request that carries an upper bound
\* carries that value.
C10_LatestIsCallersValue ==
    /\ Constructed /\ pc = "ready" => self.latest_date_timestamp = SpecifiedLatest(args)
    /\ \A i \in 1..Len(log) :
           log[i].type = "request" =>
               log[i].latest \in {"absent", Str(self.latest_date_timestamp)}

\* C11: load_data raises its input error exactly when channel_ids and
\* channel_patterns are both empty, and it raises it straight from the call: no
\* channel list, history or replies request has been sent by then.
C11_InputErrorBeforeAnyRequest ==
    /\ [](/\ pc = "raised_input" =>
               /\ load.ids_arg = <<>> /\ load.channel_patterns = <<>>
               /\ log = <<>> /\ load.results = <<>>
          /\ pc = "list_channels" \/ Resolved =>
               load.ids_arg # <<>> \/ load.channel_patterns # <<>>)
    /\ [][pc' = "raised_input" => pc \in {"ready", "returned", "raised_input"}]_vars

\* C11's case: load_data of a constructed reader was called with neither ids nor
\* patterns, and raised.
C11_Witness ==
    /\ pc = "raised_input"
    /\ load.ids_arg = <<>> /\ load.channel_patterns = <<>>
    /\ self # NoFields

\* C12: load_data holds one document for each channel id it has finished with, in
\* that order, whose id and metadata channel are that id; the document appended
\* when _read_channel returns carries the returned text, the empty string
\* included, and a load that returns has as many documents as ids it iterated over.
C12_OneDocumentPerIteratedId ==
    /\ Len(load.results) = load.pos - 1
    /\ \A i \in 1..Len(load.results) :
           /\ load.results[i].id_ = load.channel_ids[i]
           /\ load.results[i].metadata.channel = load.channel_ids[i]
    /\ ChannelReturned =>
           load.results[Len(load.results)]
               = Document(load.channel_ids[load.pos - 1], log[Len(log)].text)
    /\ pc = "returned" => Len(load.results) = Len(load.channel_ids)

\* C12's case: the only thread of channel B failed on its first request, so
\* _read_channel returned the empty string, and B's document has an empty text.
C12_Witness ==
    /\ ChannelReturned
    /\ log[Len(log)].text = ""
    /\ load.results[Len(load.results)] = Document("B", "")

\* the ts of the top-level messages the history pages before log[i] delivered
DeliveredBefore(i) ==
    LET ok == SelectSeq(SubSeq(log, 1, i - 1),
                        LAMBDA e : IsRequest(e, "history") /\ e.outcome = "ok")
    IN  Concat([k \in 1..Len(ok) |-> ok[k].result.messages])

\* how many calls of _read_message have returned before log[i]
ReturnsBefore(i) == Cardinality({j \in 1..(i - 1) : IsReturn(log[j], "replies")})

RECURSIVE ThreadsFollowMessages(_, _, _, _)
\* from log[i] on, r calls of _read_message having returned and d messages
\* having been delivered before it: a history request is sent when r = d, with r
\* entries in result_messages, and a call of _read_message is for the message
\* after the r that have had theirs
ThreadsFollowMessages(delivered, i, r, d) ==
    IF i > Len(log) THEN r <= d
    ELSE LET e == log[i]
         IN  /\ r <= d
             /\ IsRequest(e, "history") => r = d /\ e.acc = r
             /\ IsRequest(e, "replies") \/ IsReturn(e, "replies") =>
                    r < d /\ e.ts = delivered[r + 1]
             /\ ThreadsFollowMessages(
                    delivered, i + 1,
                    IF IsReturn(e, "replies") THEN r + 1 ELSE r,
                    IF IsRequest(e, "history") /\ e.outcome = "ok"
                    THEN d + Len(e.result.messages) ELSE d)

\* C13: the calls of _read_message follow the delivered top-level messages one for
\* one and in order; a history request is sent only when every message delivered
\* so far has had its call return, with one entry in result_messages for each, so
\* a retried history page adds nothing twice; and when _read_channel returns every
\* delivered message has exactly one entry.
C13_OneThreadFetchPerMessage ==
    LET delivered == DeliveredBefore(Len(log) + 1)
    IN  /\ ThreadsFollowMessages(delivered, 1, 0, 0)
        /\ Complete(log) => Len(chan.result_messages) = ReturnsBefore(Len(log) + 1)
        /\ ChannelReturned => ReturnsBefore(Len(log) + 1) = Len(delivered)

\* C13's case: the request for the second history page was rate limited after the
\* first page's two threads had returned, and the fetch ended with three entries.
C13_Witness ==
    /\ ChannelReturned
    /\ Len(chan.result_messages) = 3
    /\ \E i \in 1..Len(log) :
           /\ IsRequest(log[i], "history") /\ log[i].outcome = "ratelimited"
           /\ log[i].acc = 2

\* C14: whatever reverse_chronological is, the text _read_message returns is the
\* reply texts its pages delivered, joined by a blank line in delivery order; the
\* flag reverses the order of the blocks of a channel and nothing inside a block.
C14_ThreadTextIgnoresFlag ==
    \A j \in 1..Len(log) :
        IsReturn(log[j], "replies") =>
            log[j].text = Join(Delivered(ThreadStart(j), j))

\* C14's case: with reverse_chronological false, a thread of two pages returned
\* its three replies in delivery order.
C14_Witness ==
    /\ ~load.reverse_chronological
    /\ \E j \in 1..Len(log) :
           /\ IsReturn(log[j], "replies")
           /\ log[j].text = "N1\n\nR1\n\nS1"

\* the last history request before log[i] that was answered with a page
LastPageBefore(i) ==
    LET ok == SelectSeq(SubSeq(log, 1, i - 1),
                        LAMBDA e : IsRequest(e, "history") /\ e.outcome = "ok")
    IN  ok[Len(ok)]

\* the call of _read_message that returns at log[j] met an error or a rate limit
Troubled(j) ==
    \E i \in ThreadStart(j)..(j - 1) : log[i].outcome \in {"error", "ratelimited"}

\* C15: errors and rate limits of a call of _read_message stay inside it.  While
\* it runs, result_messages is the texts of the calls that returned before it and
\* the channel's cursor is the one its page was asked with; when it returns, its
\* text, partial or empty, is the next entry of result_messages, and _read_channel
\* goes on as after any thread: to the page's next message, else to the next page
\* with the page's next_cursor, else to its return.
C15_ThreadFaultsStayInThread ==
    Complete(log) =>
        /\ chan.result_messages = ThreadTexts
        /\ pc \in {"replies", "replies_except"} =>
               chan.next_cursor = LastPageBefore(Len(log) + 1).cursor
        /\ \A i \in 1..(Len(log) - 1) :
               IsRequest(log[i], "replies") /\ log[i].outcome = "error" =>
                   IsReturn(log[i + 1], "replies") /\ log[i + 1].ts = log[i].ts
        /\ \A j \in 1..Len(log) :
               IsReturn(log[j], "replies") /\ Troubled(j) /\ j < Len(log) =>
                   LET d == DeliveredBefore(j)
                       r == ReturnsBefore(j)
                       page == LastPageBefore(j)
                   IN  IF r + 1 < Len(d)
                       THEN /\ IsRequest(log[j + 1], "replies")
                            /\ log[j + 1].ts = d[r + 2]
                            /\ log[j + 1].cursor = NoCursor
                       ELSE IF page.result.has_more
                       THEN /\ IsRequest(log[j + 1], "history")
                            /\ log[j + 1].cursor = page.result.next_cursor
                            /\ log[j + 1].acc = r + 1
                       ELSE IsReturn(log[j + 1], "history")

\* C15's case: the thread of the first message of a page failed on its first
\* request and returned the empty text, the next message's thread was fetched,
\* and the channel fetch went on to its end with an entry for every message.
C15_Witness ==
    /\ ChannelReturned
    /\ chan.result_messages = <<"", "M2\n\nR2", "">>
    /\ \E i \in 1..Len(log) :
           /\ IsRequest(log[i], "replies") /\ log[i].outcome = "error"
           /\ log[i].ts = "m1"
           /\ i + 2 <= Len(log)
           /\ IsReturn(log[i + 1], "replies")
           /\ IsRequest(log[i + 2], "replies") /\ log[i + 2].ts = "m2"

\* how many entries of seq are x
Count(seq, x) == Cardinality({i \in 1..Len(seq) : seq[i] = x})

\* a pattern of letters only
Literal(pattern) == \A i \in 1..Len(pattern) : pattern[i] \in {"a", "b"}

\* name begins with the letters of pattern
BeginsWith(name, pattern) ==
    Len(pattern) <= Len(name) /\ SubSeq(name, 1, Len(pattern)) = pattern

\* C16: the ids _get_channel_ids returns are, first, one entry for each listed
\* channel whose name is among the patterns that do not compile and, after these,
\* one entry for each pair of a listed channel and a compiling pattern that
\* matches at the start of its name; a compiling pattern selects nothing by
\* equality, and a compiling pattern of letters only matches exactly the names
\* that begin with it.
C16_ResolverKeepsMultiplicity ==
    pc = "got_channel_ids" =>
        LET patterns == load.channel_patterns
            channels == load.channels
            ids == load.pattern_channel_ids
            regex == {i \in 1..Len(patterns) : IsRegex(patterns[i])}
            exact == {patterns[i] : i \in (1..Len(patterns)) \ regex}
            named == {c \in 1..Len(channels) : channels[c].name \in exact}
            pairs == {<<c, i>> \in (1..Len(channels)) \X regex :
                          ReMatch(patterns[i], channels[c].name)}
            e == Cardinality(named)
        IN  /\ Len(ids) = e + Cardinality(pairs)
            /\ \A c \in 1..Len(channels) :
                   /\ Count(SubSeq(ids, 1, e), channels[c].id)
                          = IF c \in named THEN 1 ELSE 0
                   /\ Count(SubSeq(ids, e + 1, Len(ids)), channels[c].id)
                          = Cardinality({p \in pairs : p[1] = c})
                   /\ \A i \in regex :
                          Literal(patterns[i]) =>
                              (<<c, i>> \in pairs <=> BeginsWith(channels[c].name, patterns[i]))

\* C16's case: the patterns "ab" and "." both compile and both match channel A,
\* whose name is "ab": A comes twice, by two matches and not by equality.
C16_Witness ==
    /\ pc = "got_channel_ids"
    /\ load.channel_patterns = << <<"a", "b">>, <<".">> >>
    /\ load.channels = Channels
    /\ load.pattern_channel_ids = <<"A", "A", "B">>

\* a call of _read_channel is under way
InFetch == pc \in {"history", "history_except", "replies", "replies_except"}

\* C17: while _read_channel runs for the channel at some position of channel_ids,
\* the document of every earlier position is already in results and every
\* request sent is for that channel; the documents are in the order of
\* channel_ids, which is the list the caller passed when no patterns were given.
C17_ChannelsOneAtATime ==
    /\ InFetch =>
           /\ load.pos <= Len(load.channel_ids)
           /\ chan.channel_id = load.channel_ids[load.pos]
           /\ Len(load.results) = load.pos - 1
    /\ \A i \in 1..Len(log) :
           log[i].type = "request" =>
               log[i].channel = load.channel_ids[IF InFetch THEN load.pos ELSE load.pos - 1]
    /\ ResultIds = SubSeq(load.channel_ids, 1, Len(load.results))
    /\ Resolved /\ load.channel_patterns = <<>> => load.channel_ids = load.ids_arg

\* C17's case: both channels of the list B, A were fetched, B first, and the
\* second fetch has just returned after its requests.
C17_Witness ==
    /\ ChannelReturned
    /\ load.channel_ids = <<"B", "A">>
    /\ ResultIds = <<"B", "A">>
    /\ \A i \in 1..Len(log) : log[i].type = "request" => log[i].channel = "A"

RECURSIVE CursorsFollowPages(_, _, _)
\* from log[i] on, hc being the next_cursor of the last history page received
\* and tc that of the last replies page the running call of _read_message
\* received, each empty if there is none: every request carries the cursor of
\* its own loop
CursorsFollowPages(i, hc, tc) ==
    i <= Len(log) =>
        LET e == log[i]
            delivered == e.type = "request" /\ e.outcome = "ok"
        IN  /\ IsRequest(e, "history") => e.cursor = hc
            /\ IsRequest(e, "replies") => e.cursor = tc
            /\ CursorsFollowPages(
                   i + 1,
                   IF delivered /\ e.kind = "history" THEN e.result.next_cursor ELSE hc,
                   IF delivered /\ e.kind = "replies" THEN e.result.next_cursor
                   ELSE IF IsReturn(e, "replies") THEN NoCursor ELSE tc)

\* a cursor that next_cursor of the given loop may hold
OwnCursor(cursor, kind, channel_id, message_ts) ==
    \/ cursor = NoCursor
    \/ cursor.kind = kind /\ cursor.channel = channel_id /\ cursor.ts = message_ts

\* C18: each loop's next_cursor is empty or a cursor of that loop's own resource;
\* the first request of a channel fetch and of every thread fetch carries no
\* cursor, and every later request carries the next_cursor of the last page its
\* own loop received.
C18_CursorsStayWithTheirLoop ==
    /\ InFetch => OwnCursor(chan.next_cursor, "history", chan.channel_id, "-")
    /\ pc \in {"replies", "replies_except"} =>
           OwnCursor(thr.next_cursor, "replies", chan.channel_id, thr.message_ts)
    /\ \A i \in 1..Len(log) :
           log[i].type = "request" =>
               OwnCursor(log[i].cursor, log[i].kind, log[i].channel, log[i].ts)
    /\ CursorsFollowPages(1, NoCursor, NoCursor)

\* C18's case: the second history page was asked for with the history cursor,
\* and the thread fetched after it began with no cursor.
C18_Witness ==
    \E i, j \in 1..Len(log) :
        /\ i < j
        /\ IsRequest(log[i], "history") /\ log[i].cursor # NoCursor
        /\ IsRequest(log[j], "replies") /\ log[j].cursor = NoCursor

\* two requests for the same page of the same resource
SamePage(e, f) ==
    e.kind = f.kind /\ e.channel = f.channel /\ e.ts = f.ts /\ e.cursor = f.cursor

\* what _read_message returns for a message when every request is answered at once
UndisturbedThreadText(ts) == Join(Concat(ReplyPages(ts)))

\* what _read_channel returns when every request is answered at once
UndisturbedChannelText(channel_id, reverse_chronological) ==
    LET messages == Concat(HistoryPages(channel_id))
        texts == [i \in 1..Len(messages) |-> UndisturbedThreadText(messages[i])]
    IN  IF reverse_chronological THEN Join(texts) ELSE Join(Reversed(texts))

\* C19: when the API answers with pages and rate-limit signals only, a page that
\* is delivered after k rate limits has been asked for k + 1 times, one request
\* after each of k sleeps and none after its delivery, and every text
\* _read_message and _read_channel return is the text of the undisturbed run.
C19_RateLimitsAreTransparent ==
    /\ \A i \in 1..Len(log) :
           log[i].type = "request" /\ log[i].outcome = "ok" =>
               LET same == {j \in 1..Len(log) :
                               log[j].type = "request" /\ SamePage(log[j], log[i])}
                   k == Cardinality(same) - 1
               IN  /\ same = {i - 2 * m : m \in 0..k}
                   /\ \A m \in 1..k :
                          /\ log[i - 2 * m].outcome = "ratelimited"
                          /\ log[i - 2 * m + 1].type = "sleep"
                          /\ log[i - 2 * m + 1].kind = log[i].kind
    /\ \A j \in 1..Len(log) :
           IsReturn(log[j], "replies") => log[j].text = UndisturbedThreadText(log[j].ts)
    /\ ChannelReturned =>
           log[Len(log)].text
               = UndisturbedChannelText(chan.channel_id, load.reverse_chronological)

\* C19's case: the second history page was rate limited twice in a row and a
\* thread once, and the channel's text is that of the undisturbed run.
C19_Witness ==
    /\ ChannelReturned
    /\ load.results[1].text = "M1\n\nM2\n\nR2\n\n"
    /\ \E i \in 1..Len(log) :
           /\ i + 4 <= Len(log)
           /\ IsRequest(log[i], "history") /\ log[i].cursor # NoCursor
           /\ log[i].outcome = "ratelimited"
           /\ log[i + 2].outcome = "ratelimited"
           /\ IsRequest(log[i + 4], "history") /\ log[i + 4].outcome = "ok"
    /\ \E i \in 1..Len(log) :
           IsRequest(log[i], "replies") /\ log[i].outcome = "ratelimited"

\* the resolver has just come back from a conversations_list request that failed
ListingFailed ==
    /\ Resolved
    /\ log # <<>>
    /\ log[1].type = "listing" /\ log[1].outcome # "ok"

\* C20: a conversations_list request that fails, by a rate limit or otherwise, is
\* the resolver's only request and no sleep follows it; the resolver yields no
\* ids, so with patterns alone load_data has nothing to iterate over and returns
\* no document at its next step, and with explicit ids it iterates over the
\* distinct explicit ids and nothing else.
C20_FailedListingYieldsNoIds ==
    /\ [](ListingFailed =>
             /\ Len(log) = 1
             /\ load.channels = <<>> /\ load.pattern_channel_ids = <<>>
             /\ load.ids_arg = <<>> => load.channel_ids = <<>>
             /\ load.ids_arg # <<>> => load.channel_ids \in ListsOfSet(PySet(load.ids_arg)))
    /\ [][/\ pc = "list_channels" => pc' = "channels" /\ Len(log') = 1
          /\ ListingFailed /\ load.ids_arg = <<>> =>
                 pc' = "returned" /\ load'.results = <<>>]_vars

\* C20's case: the listing was rate limited while the caller had passed the ids
\* B, A along with patterns, and load_data is about to iterate over A and B.
C20_Witness ==
    /\ ListingFailed
    /\ log[1].outcome = "ratelimited"
    /\ load.ids_arg = <<"B", "A">>
    /\ PySet(load.channel_ids) = {"A", "B"}

============================================================================
